---- MODULE Spec2Model ----
(***************************************************************************)
(* Model of week-1/src/main.rs: an in-memory book store (Storage: a map    *)
(* from id to Book plus the next_id counter) behind one tokio Mutex, and   *)
(* the hyper request handlers that route a method and a path onto it.      *)
(*                                                                         *)
(* Every request is one handler future.  A future runs from one .await to  *)
(* the next without interruption by its own task, but other handlers run   *)
(* in between (and in parallel, on the multi-threaded runtime).  The       *)
(* places a handler can be at are                                          *)
(*   *_body   awaiting hyper::body::to_bytes                                *)
(*   *_lock   awaiting state.lock()                                         *)
(*   create_book_insert, update_book_author, update_book_isbn               *)
(*            inside the critical section, between two writes              *)
(* The request a step completes is kept in `last`, with its answer, until *)
(* the next step.                                                          *)
(***************************************************************************)
EXTENDS Integers, Sequences, FiniteSets, TLC

\* ------------------------------------------------------------------ bounds
\* Handlers in flight at the same time.
NumTasks == 2
\* Requests accepted in one run.
MaxRequests == 3

Tasks == 1..NumTasks

\* --------------------------------------------------------- hyper StatusCode
OK == 200
CREATED == 201
NO_CONTENT == 204
BAD_REQUEST == 400
NOT_FOUND == 404

\* ------------------------------------------------------- Option and Result
None == <<>>
Some(x) == <<x>>
Err == <<"Err">>
Ok(x) == <<"Ok", x>>
is_ok(r) == r[1] = "Ok"

\* ------------------------------------------------------------- JSON values
\* A member of a JSON object: left out, null, a number, or a string.
JAbsent == <<"absent">>
JNull == <<"null">>
JNum == <<"num">>
JStr(s) == <<"str", s>>

\* ------------------------------------------------------------------ inputs
BOOKS == <<"/", "b", "o", "o", "k", "s">>
BOOKS_SLASH == BOOKS \o <<"/">>

BookPath(rest) == BOOKS_SLASH \o rest

\* 2^64, one more than u64::MAX, in decimal.
TwoPow64 ==
    <<"1","8","4","4","6","7","4","4","0","7","3","7","0","9","5","5","1","6","1","6">>

\* Paths whose last segment is an id as the routing table writes it.
PlainIdPaths == {BookPath(<<"1">>), BookPath(<<"2">>)}

\* Other paths under /books/.
OddIdPaths ==
    { BOOKS_SLASH, BookPath(<<"9", "9">>),
      BookPath(<<"+", "1">>), BookPath(<<"-", "1">>),
      BookPath(<<"1", "a">>), BookPath(<<"a", "b", "c">>),
      BookPath(<<"1", "/">>), BookPath(BookPath(<<"1">>)),
      BookPath(TwoPow64) }

\* The requests (a method and a path) of the runs that exercise the store:
\* every route, on two ids, and one request for each way of being turned
\* away.
Requests ==
    ({"POST", "GET"} \X {BOOKS})
    \cup ({"GET", "PUT", "DELETE"} \X {BookPath(<<"1">>)})
    \cup ({"GET", "DELETE"} \X {BookPath(<<"2">>)})
    \cup ({"GET"} \X {BookPath(<<"+", "1">>), BookPath(<<"a", "b", "c">>)})
    \cup {<<"PATCH", BookPath(<<"1">>)>>}

\* The requests of the runs that exercise the routing: the methods on the
\* collection, on plain ids and on the other paths.
RoutingRequests ==
    ({"POST", "GET", "PUT", "DELETE"} \X {BOOKS})
    \cup ({"GET", "PUT", "DELETE"} \X PlainIdPaths)
    \cup ({"POST", "PATCH"} \X {BookPath(<<"1">>)})
    \cup ({"GET"} \X OddIdPaths)
    \cup ({"PUT", "DELETE"} \X {BookPath(<<"a", "b", "c">>), BookPath(<<"+", "1">>)})
    \cup {<<"GET", <<"/">> >>, <<"GET", BOOKS \o <<"x">> >>, <<"POST", BOOKS_SLASH>>}

NoBody == [kind |-> "none", title |-> JAbsent, author |-> JAbsent, isbn |-> JAbsent]
\* The connection broke while the body was read.
BrokenBody == [NoBody EXCEPT !.kind = "broken"]
\* Bytes that are not a JSON object.
MalformedBody == [NoBody EXCEPT !.kind = "malformed"]

Object(title, author, isbn) ==
    [kind |-> "object", title |-> title, author |-> author, isbn |-> isbn]

\* The bodies of the runs that exercise the store: a body that cannot be
\* read, bytes that are no JSON, and objects with each member left out or a
\* string (isbn: or null).
Bodies ==
    { BrokenBody, MalformedBody,
      Object(JAbsent, JAbsent, JAbsent),
      Object(JStr("Dune"), JAbsent, JAbsent),
      Object(JAbsent, JStr("Herbert"), JAbsent),
      Object(JAbsent, JAbsent, JStr("123")),
      Object(JAbsent, JAbsent, JNull),
      Object(JStr("Dune"), JStr("Herbert"), JAbsent),
      Object(JStr("Dune"), JStr("Herbert"), JStr("123")),
      Object(JStr(""), JStr(""), JNull) }

\* The bodies of the runs that exercise the routing: one that cannot be
\* read, one that is no JSON, one with a member of another type, one that
\* decodes as a patch only and one that decodes as a creation payload too.
RoutingBodies ==
    { BrokenBody, MalformedBody,
      Object(JStr("Dune"), JStr("Herbert"), JNum),
      Object(JAbsent, JAbsent, JStr("123")),
      Object(JStr("Dune"), JStr("Herbert"), JAbsent) }

\* ----------------------------------------------------- str and u64 parsing
starts_with(s, pat) ==
    /\ Len(s) >= Len(pat)
    /\ SubSeq(s, 1, Len(pat)) = pat

RECURSIVE trim_start_matches(_, _)
\* str::trim_start_matches: removes the pattern as long as the string starts
\* with it.
trim_start_matches(s, pat) ==
    IF starts_with(s, pat)
    THEN trim_start_matches(SubSeq(s, Len(pat) + 1, Len(s)), pat)
    ELSE s

Digits == {"0", "1", "2", "3", "4", "5", "6", "7", "8", "9"}

to_digit(c) ==
    CASE c = "0" -> 0 [] c = "1" -> 1 [] c = "2" -> 2 [] c = "3" -> 3
      [] c = "4" -> 4 [] c = "5" -> 5 [] c = "6" -> 6 [] c = "7" -> 7
      [] c = "8" -> 8 [] c = "9" -> 9

U64_MAX ==
    <<"1","8","4","4","6","7","4","4","0","7","3","7","0","9","5","5","1","6","1","5">>

RECURSIVE strip_zeros(_)
strip_zeros(ds) ==
    IF ds # <<>> /\ Head(ds) = "0" THEN strip_zeros(Tail(ds)) ELSE ds

RECURSIVE digits_leq(_, _)
\* a <= b for two digit strings of the same length.
digits_leq(a, b) ==
    IF a = <<>> THEN TRUE
    ELSE IF to_digit(Head(a)) < to_digit(Head(b)) THEN TRUE
    ELSE IF to_digit(Head(a)) > to_digit(Head(b)) THEN FALSE
    ELSE digits_leq(Tail(a), Tail(b))

\* The checked_mul / checked_add of the digit loop succeed: the number is at
\* most u64::MAX.  Compared digit by digit, as the value itself is wider
\* than the integers of the model checker.
fits_u64(ds) ==
    LET z == strip_zeros(ds)
    IN  \/ Len(z) < Len(U64_MAX)
        \/ Len(z) = Len(U64_MAX) /\ digits_leq(z, U64_MAX)

RECURSIVE digits_value(_, _)
digits_value(acc, ds) ==
    IF ds = <<>> THEN acc
    ELSE digits_value(acc * 10 + to_digit(Head(ds)), Tail(ds))

\* <u64 as FromStr>::from_str: an empty string and a lone sign are errors; a
\* leading "+" is accepted and dropped ("-" is not, for an unsigned type);
\* every remaining character must be a digit; the value must fit.
parse_u64(src) ==
    IF src = <<>> THEN Err
    ELSE IF Len(src) = 1 /\ Head(src) \in {"+", "-"} THEN Err
    ELSE LET digits == IF Head(src) = "+" THEN Tail(src) ELSE src
         IN  IF \E i \in 1..Len(digits) : digits[i] \notin Digits THEN Err
             ELSE IF ~fits_u64(digits) THEN Err
             ELSE Ok(digits_value(0, digits))

\* ------------------------------------------------------------------- serde
\* Deserialize for String: only a JSON string.
de_string(v) == IF v[1] = "str" THEN Ok(v[2]) ELSE Err

\* Deserialize for Option<String>: a missing member and null are None.
de_option_string(v) ==
    CASE v[1] = "str" -> Ok(Some(v[2]))
      [] v[1] \in {"null", "absent"} -> Ok(None)
      [] OTHER -> Err

\* A missing title or author is taken as the empty string.
from_slice_create_default(b) ==
    IF b.kind # "object" \/ ~is_ok(de_option_string(b.isbn)) THEN Err
    ELSE Ok([ title |-> IF is_ok(de_string(b.title)) THEN b.title[2] ELSE "",
              author |-> IF is_ok(de_string(b.author)) THEN b.author[2] ELSE "",
              isbn |-> de_option_string(b.isbn)[2] ])

\* serde_json::from_slice::<CreateBookRequest>
from_slice_create(b) ==
    IF b.kind # "object" THEN Err
    ELSE IF \/ ~is_ok(de_string(b.title))
            \/ ~is_ok(de_string(b.author))
            \/ ~is_ok(de_option_string(b.isbn))
         THEN Err
         ELSE Ok([ title |-> de_string(b.title)[2],
                   author |-> de_string(b.author)[2],
                   isbn |-> de_option_string(b.isbn)[2] ])

\* Bytes that do not decode are taken as the patch that holds no field.
from_slice_update_lenient(b) ==
    IF b.kind = "object" /\ \A f \in {b.title, b.author, b.isbn} :
                               is_ok(de_option_string(f))
    THEN Ok([ title |-> de_option_string(b.title)[2],
              author |-> de_option_string(b.author)[2],
              isbn |-> de_option_string(b.isbn)[2] ])
    ELSE Ok([title |-> None, author |-> None, isbn |-> None])

\* serde_json::from_slice::<UpdateBookRequest>
from_slice_update(b) ==
    IF b.kind # "object" THEN Err
    ELSE IF \/ ~is_ok(de_option_string(b.title))
            \/ ~is_ok(de_option_string(b.author))
            \/ ~is_ok(de_option_string(b.isbn))
         THEN Err
         ELSE Ok([ title |-> de_option_string(b.title)[2],
                   author |-> de_option_string(b.author)[2],
                   isbn |-> de_option_string(b.isbn)[2] ])

\* The isbn is left out of the answer.
to_json_no_isbn(book) ==
    [ id |-> book.id, title |-> JStr(book.title), author |-> JStr(book.author),
      isbn |-> JNull ]

\* Serialize for Book.
to_json(book) ==
    [ id |-> book.id,
      title |-> JStr(book.title),
      author |-> JStr(book.author),
      isbn |-> IF book.isbn = None THEN JNull ELSE JStr(book.isbn[1]) ]

\* --------------------------------------------------------------- responses
\* serde_json::to_string does not fail on a Book or a Vec<Book>, so the 500
\* branch of json_response is never taken.
json_response(status, data) == [status |-> status, body |-> data]
bad_request(message) == [status |-> BAD_REQUEST, body |-> message]
not_found == [status |-> NOT_FOUND, body |-> "Not found"]
no_content == [status |-> NO_CONTENT, body |-> ""]
\* handle_request returned Err(hyper::Error): no HTTP response is written.
hyper_error == [status |-> 0, body |-> "hyper::Error"]
NoResponse == [status |-> 0, body |-> ""]

\* ----------------------------------------------------------------- HashMap
EmptyMap == [k \in {} |-> 0]
\* The map is replaced by one that holds the new entry alone.
insert_alone(m, k, v) == [x \in {k} |-> v]

insert(m, k, v) == [x \in DOMAIN m \cup {k} |-> IF x = k THEN v ELSE m[x]]
\* Nothing is removed.
remove_nothing(m, k) == m

remove(m, k) == [x \in DOMAIN m \ {k} |-> m[x]]
values(m) == {m[k] : k \in DOMAIN m}

VARIABLES
    books,      \* Storage.books
    next_id,    \* Storage.next_id
    lock,       \* the Mutex: the tasks that called lock(), oldest first;
                \* the first one holds the guard
    tasks,      \* each handler in flight
    last,       \* the request the last step completed, and its answer
    nreq,       \* requests accepted so far
    issued,     \* the ids of the 201 answers, in order
    deleted,    \* the ids of the 204 answers
    committed   \* id -> the Book as the last completed create or update
                \* left it, and the body that request was answered with

vars == <<books, next_id, lock, tasks, last, nreq, issued, deleted, committed>>

\* A handler in flight: where it is (pc), its request (method, path, the id
\* parsed from the path, the body as read, the body as decoded), and what is
\* remembered of the run for the properties below:
\*   gone   a DELETE of this id had been answered 204 when the request came
\*   start  for a GET, the committed Book of this id when the request came;
\*          for a PUT, the one when its body was decoded
\*   raced  the request came while an update of this id that changes both
\*          title and author had written the one and not yet the other
\*   pre    the Book an update found
IdleTask ==
    [ pc |-> "idle", method |-> "", path |-> <<>>, id |-> None,
      body |-> NoBody, req |-> None, gone |-> FALSE, start |-> EmptyMap,
      raced |-> FALSE, pre |-> None ]

\* A completed request: the fields of its handler, its answer (resp) and
\*   post        the Book a create or an update left in the map
\*   snap        what was committed when the store was read
\*   seenIssued  the number of 201 answers when the store was read
\*   seenDeleted whether any 204 had been answered when the store was read
NoRequest ==
    [ method |-> "", path |-> <<>>, id |-> None, body |-> NoBody,
      req |-> None, gone |-> FALSE, start |-> EmptyMap, raced |-> FALSE,
      pre |-> None, post |-> None,
      snap |-> EmptyMap, seenIssued |-> 0, seenDeleted |-> FALSE,
      resp |-> NoResponse ]

\* The record of task t's request as it completes with answer resp.
Completed(t, resp, post, snap) ==
    [ method |-> tasks[t].method, path |-> tasks[t].path,
      id |-> tasks[t].id, body |-> tasks[t].body, req |-> tasks[t].req,
      gone |-> tasks[t].gone, start |-> tasks[t].start,
      raced |-> tasks[t].raced, pre |-> tasks[t].pre, post |-> post,
      snap |-> snap, seenIssued |-> Len(issued), seenDeleted |-> deleted # {},
      resp |-> resp ]

\* The committed entries of id k (none or one).
only(m, k) == [x \in DOMAIN m \cap {k} |-> m[x]]

\* A create or an update completes: it leaves book under id k and is
\* answered with body out.
note_write(m, k, book, out) ==
    [x \in DOMAIN m \cup {k} |-> IF x = k THEN [rec |-> book, out |-> out] ELSE m[x]]

\* A delete completes.
note_delete(m, k) == [x \in DOMAIN m \ {k} |-> m[x]]

\* ------------------------------------------------------------ tokio Mutex
\* The newcomer goes to the front of the queue, ahead of the holder.
enqueue_front(q, t) == <<t>> \o q

\* The first poll of lock(): the task joins the queue of the semaphore (and
\* holds the permit at once when nobody else does).
enqueue(q, t) == Append(q, t)

\* No exclusion: whoever asked for the lock goes on.
HoldsLock_any(t) == \E i \in 1..Len(lock) : lock[i] = t

\* The permit is handed to waiters in the order they asked.
HoldsLock(t) == lock # <<>> /\ Head(lock) = t

\* The guard is never dropped.
unlock_never(q, t) == q

\* Drop of the MutexGuard.
unlock(q, t) == SelectSeq(q, LAMBDA x : x # t)

\* ---------------------------------------------------------------- Storage
\* Storage::new
Init ==
    /\ books = EmptyMap
    /\ next_id = 1
    /\ lock = <<>>
    /\ tasks = [t \in Tasks |-> IdleTask]
    /\ last = NoRequest
    /\ nreq = 0
    /\ issued = <<>>
    /\ deleted = {}
    /\ committed = EmptyMap

\* The counter is advanced by two.
NextId_skip(n) == n + 2

\* The counter is not advanced.
NextId_same(n) == n

\* storage.next_id += 1.  (A u64: the addition overflows after 2^64 - 1
\* creates, far beyond any run considered here.)
NextId(n) == n + 1

\* ----------------------------------------------------------------- routing
\* PUT and DELETE are matched on the prefix /books, without the slash.
Route_prefix(method, path) ==
    CASE method = "POST" /\ path = BOOKS -> "create_book"
      [] method = "GET" /\ path = BOOKS -> "get_all_books"
      [] method = "GET" /\ starts_with(path, BOOKS_SLASH) -> "get_book"
      [] method = "PUT" /\ starts_with(path, BOOKS) -> "update_book"
      [] method = "DELETE" /\ starts_with(path, BOOKS) -> "delete_book"
      [] OTHER -> "not_found"

\* The match of handle_request.
Route(method, path) ==
    CASE method = "POST" /\ path = BOOKS -> "create_book"
      [] method = "GET" /\ path = BOOKS -> "get_all_books"
      [] method = "GET" /\ starts_with(path, BOOKS_SLASH) -> "get_book"
      [] method = "PUT" /\ starts_with(path, BOOKS_SLASH) -> "update_book"
      [] method = "DELETE" /\ starts_with(path, BOOKS_SLASH) -> "delete_book"
      [] OTHER -> "not_found"

\* The id handle_book_id hands to its handler, or Err.
handle_book_id(path) == parse_u64(trim_start_matches(path, BOOKS_SLASH))

\* ---------------------------------------------------------------- handlers
\* A request is given the free slot of lowest number: the slots only name
\* the futures in flight.
FreeSlot(t) ==
    /\ tasks[t].pc = "idle"
    /\ \A u \in Tasks : u < t => tasks[u].pc # "idle"

\* An update of id that changes both title and author is between its
\* first and its last write.
HalfApplied(id) ==
    \E u \in Tasks :
        /\ tasks[u].pc \in {"update_book_author", "update_book_isbn"}
        /\ tasks[u].id = Some(id)
        /\ tasks[u].req[1].title \notin {None, Some(tasks[u].pre[1].title)}
        /\ tasks[u].req[1].author \notin {None, Some(tasks[u].pre[1].author)}

NewTask(pc, method, path, id) ==
    [ IdleTask EXCEPT !.pc = pc, !.method = method,
                      !.path = path, !.id = id,
                      !.gone = (id # None /\ id[1] \in deleted),
                      !.start = IF method = "GET" /\ id # None
                                THEN only(committed, id[1])
                                ELSE EmptyMap,
                      !.raced = IF method = "GET" /\ id # None
                                THEN HalfApplied(id[1])
                                ELSE IF method = "GET"
                                THEN \E k \in DOMAIN books : HalfApplied(k)
                                ELSE FALSE ]

\* The request is answered within handle_request itself.
Answered(method, path, id, resp) ==
    [ NoRequest EXCEPT !.method = method, !.path = path,
                       !.id = id, !.resp = resp,
                       !.gone = (id # None /\ id[1] \in deleted) ]

\* handle_request up to the handler's first .await that has to wait: the
\* match on method and path, and for a path under /books/ handle_book_id's
\* parse of the id.  create_book and update_book first await the body;
\* get_all_books, get_book and delete_book first await the lock.
handle_request(t, method, path) ==
    /\ FreeSlot(t)
    /\ nreq < MaxRequests
    /\ nreq' = nreq + 1
    /\ LET route == Route(method, path)
           parsed == handle_book_id(path)
       IN  CASE route = "not_found" ->
                  /\ last' = Answered(method, path, None, not_found)
                  /\ UNCHANGED <<tasks, lock>>
             [] route = "create_book" ->
                  /\ tasks' = [tasks EXCEPT ![t] =
                                 NewTask("create_book_body", method, path, None)]
                  /\ last' = NoRequest
                  /\ UNCHANGED lock
             [] route = "get_all_books" ->
                  /\ tasks' = [tasks EXCEPT ![t] =
                                 NewTask("get_all_books_lock", method, path, None)]
                  /\ lock' = enqueue(lock, t)
                  /\ last' = NoRequest
             [] route \in {"get_book", "update_book", "delete_book"}
                  /\ ~is_ok(parsed) ->
                  /\ last' = Answered(method, path, None,
                                      bad_request("Invalid book ID"))
                  /\ UNCHANGED <<tasks, lock>>
             [] route = "update_book" /\ is_ok(parsed) ->
                  /\ tasks' = [tasks EXCEPT ![t] =
                                 NewTask("update_book_body", method, path,
                                         Some(parsed[2]))]
                  /\ last' = NoRequest
                  /\ UNCHANGED lock
             [] route \in {"get_book", "delete_book"} /\ is_ok(parsed) ->
                  /\ tasks' = [tasks EXCEPT ![t] =
                                 NewTask(route \o "_lock", method, path,
                                         Some(parsed[2]))]
                  /\ lock' = enqueue(lock, t)
                  /\ last' = NoRequest
    /\ UNCHANGED <<books, next_id, issued, deleted, committed>>

\* The handler asks for the lock first and reads its body with the guard
\* held.
create_book_lock_first(t, b) ==
    /\ tasks[t].pc = "create_book_body"
    /\ IF \A i \in 1..Len(lock) : lock[i] # t
       THEN /\ lock' = enqueue(lock, t)
            /\ last' = NoRequest
            /\ UNCHANGED tasks
       ELSE /\ HoldsLock(t)
            /\ IF is_ok(from_slice_create(b))
               THEN /\ tasks' = [tasks EXCEPT ![t].pc = "create_book_lock",
                                              ![t].body = b,
                                              ![t].req = Some(from_slice_create(b)[2])]
                    /\ last' = NoRequest
                    /\ UNCHANGED lock
               ELSE /\ last' = [Completed(t, IF b.kind = "broken" THEN hyper_error
                                             ELSE bad_request("Invalid request body"),
                                          None, EmptyMap) EXCEPT !.body = b]
                    /\ tasks' = [tasks EXCEPT ![t] = IdleTask]
                    /\ lock' = unlock(lock, t)
    /\ UNCHANGED <<books, next_id, nreq, issued, deleted, committed>>

\* create_book, lines 107-112: the body arrives and is decoded; a body that
\* decodes takes the handler to state.lock().
create_book_decode(t, b) ==
    /\ tasks[t].pc = "create_book_body"
    /\ LET create_req == from_slice_create(b)
           me == [tasks[t] EXCEPT !.body = b]
       IN  CASE b.kind = "broken" ->
                  /\ last' = [Completed(t, hyper_error, None, EmptyMap)
                                EXCEPT !.body = b]
                  /\ tasks' = [tasks EXCEPT ![t] = IdleTask]
                  /\ UNCHANGED lock
             [] b.kind # "broken" /\ ~is_ok(create_req) ->
                  /\ last' = [Completed(t, bad_request("Invalid request body"),
                                        None, EmptyMap) EXCEPT !.body = b]
                  /\ tasks' = [tasks EXCEPT ![t] = IdleTask]
                  /\ UNCHANGED lock
             [] b.kind # "broken" /\ is_ok(create_req) ->
                  /\ tasks' = [tasks EXCEPT ![t] =
                                 [me EXCEPT !.pc = "create_book_lock",
                                            !.req = Some(create_req[2])]]
                  /\ lock' = enqueue(lock, t)
                  /\ last' = NoRequest
    /\ UNCHANGED <<books, next_id, nreq, issued, deleted, committed>>

\* create_book, lines 113-114, with the guard held.
create_book_alloc(t) ==
    /\ tasks[t].pc = "create_book_lock"
    /\ HoldsLock(t)
    /\ tasks' = [tasks EXCEPT ![t].pc = "create_book_insert",
                              ![t].id = Some(next_id)]
    /\ next_id' = NextId(next_id)
    /\ last' = NoRequest
    /\ UNCHANGED <<books, lock, nreq, issued, deleted, committed>>

\* The Book takes the counter as it is after the increment.
new_book_next(id, create_req) ==
    [ id |-> id + 1, title |-> create_req.title, author |-> create_req.author,
      isbn |-> create_req.isbn ]

\* The Book of lines 116-121.
new_book(id, create_req) ==
    [ id |-> id, title |-> create_req.title, author |-> create_req.author,
      isbn |-> create_req.isbn ]

\* create_book, lines 116-125: the insert, the answer, the guard dropped.
create_book_insert(t) ==
    /\ tasks[t].pc = "create_book_insert"
    /\ LET id == tasks[t].id[1]
           book == new_book(id, tasks[t].req[1])
           resp == json_response(CREATED, to_json(book))
       IN  /\ books' = insert(books, id, book)
           /\ last' = Completed(t, resp, Some(book), EmptyMap)
           /\ issued' = Append(issued, id)
           /\ committed' = note_write(committed, id, book, resp.body)
    /\ lock' = unlock(lock, t)
    /\ tasks' = [tasks EXCEPT ![t] = IdleTask]
    /\ UNCHANGED <<next_id, nreq, deleted>>

\* get_all_books.  The order of a HashMap's values is not defined; the
\* array is kept as the set of its elements.
get_all_books(t) ==
    /\ tasks[t].pc = "get_all_books_lock"
    /\ HoldsLock(t)
    /\ last' = Completed(t, json_response(OK, {to_json(b) : b \in values(books)}),
                         None, committed)
    /\ lock' = unlock(lock, t)
    /\ tasks' = [tasks EXCEPT ![t] = IdleTask]
    /\ UNCHANGED <<books, next_id, nreq, issued, deleted, committed>>

\* get_book
get_book(t) ==
    /\ tasks[t].pc = "get_book_lock"
    /\ HoldsLock(t)
    /\ LET id == tasks[t].id[1]
           resp == IF id \in DOMAIN books
                   THEN json_response(OK, to_json(books[id]))
                   ELSE not_found
       IN  last' = Completed(t, resp, None, only(committed, id))
    /\ lock' = unlock(lock, t)
    /\ tasks' = [tasks EXCEPT ![t] = IdleTask]
    /\ UNCHANGED <<books, next_id, nreq, issued, deleted, committed>>

\* update_book, lines 149-154.
update_book_decode(t, b) ==
    /\ tasks[t].pc = "update_book_body"
    /\ LET update_req == from_slice_update(b)
           me == [tasks[t] EXCEPT !.body = b]
       IN  CASE b.kind = "broken" ->
                  /\ last' = [Completed(t, hyper_error, None, EmptyMap)
                                EXCEPT !.body = b]
                  /\ tasks' = [tasks EXCEPT ![t] = IdleTask]
                  /\ UNCHANGED lock
             [] b.kind # "broken" /\ ~is_ok(update_req) ->
                  /\ last' = [Completed(t, bad_request("Invalid request body"),
                                        None, EmptyMap) EXCEPT !.body = b]
                  /\ tasks' = [tasks EXCEPT ![t] = IdleTask]
                  /\ UNCHANGED lock
             [] b.kind # "broken" /\ is_ok(update_req) ->
                  /\ tasks' = [tasks EXCEPT ![t] =
                                 [me EXCEPT !.pc = "update_book_lock",
                                            !.req = Some(update_req[2]),
                                            !.start = only(committed,
                                                           tasks[t].id[1])]]
                  /\ lock' = enqueue(lock, t)
                  /\ last' = NoRequest
    /\ UNCHANGED <<books, next_id, nreq, issued, deleted, committed>>

\* Lines 157-159.
set_title(book, update_req) ==
    IF update_req.title # None
    THEN [book EXCEPT !.title = update_req.title[1]]
    ELSE book

\* An author left out of the patch empties the author.
set_author_or_default(book, update_req) ==
    [book EXCEPT !.author = IF update_req.author # None
                            THEN update_req.author[1] ELSE ""]

\* Lines 160-162.
set_author(book, update_req) ==
    IF update_req.author # None
    THEN [book EXCEPT !.author = update_req.author[1]]
    ELSE book

\* The isbn of the patch is stored as it is, absent when the patch has none.
set_isbn_or_clear(book, update_req) ==
    [book EXCEPT !.isbn = update_req.isbn]

\* Lines 163-165.
set_isbn(book, update_req) ==
    IF update_req.isbn # None
    THEN [book EXCEPT !.isbn = Some(update_req.isbn[1])]
    ELSE book

\* The lookup takes the entry of the id and fills it in when there is none
\* (entry(id).or_insert_with) instead of get_mut.
update_book_upsert(t) ==
    /\ tasks[t].pc = "update_book_lock"
    /\ HoldsLock(t)
    /\ LET id == tasks[t].id[1]
           found == IF id \in DOMAIN books THEN books[id]
                    ELSE [id |-> id, title |-> "", author |-> "", isbn |-> None]
       IN  /\ books' = insert(books, id, set_title(found, tasks[t].req[1]))
           /\ tasks' = [tasks EXCEPT ![t].pc = "update_book_author",
                                     ![t].pre = Some(found)]
    /\ last' = NoRequest
    /\ UNCHANGED <<next_id, lock, nreq, issued, deleted, committed>>

\* update_book, lines 155-159 and 168, with the guard held: the lookup, and
\* the first write.
update_book_title(t) ==
    /\ tasks[t].pc = "update_book_lock"
    /\ HoldsLock(t)
    /\ LET id == tasks[t].id[1]
       IN  IF id \in DOMAIN books
           THEN /\ books' = [books EXCEPT ![id] = set_title(@, tasks[t].req[1])]
                /\ tasks' = [tasks EXCEPT ![t].pc = "update_book_author",
                                          ![t].pre = Some(books[id])]
                /\ last' = NoRequest
                /\ UNCHANGED lock
           ELSE /\ last' = Completed(t, not_found, None, EmptyMap)
                /\ lock' = unlock(lock, t)
                /\ tasks' = [tasks EXCEPT ![t] = IdleTask]
                /\ UNCHANGED books
    /\ UNCHANGED <<next_id, nreq, issued, deleted, committed>>

\* update_book, lines 160-162.
update_book_author(t) ==
    /\ tasks[t].pc = "update_book_author"
    /\ books' = [books EXCEPT ![tasks[t].id[1]] = set_author(@, tasks[t].req[1])]
    /\ tasks' = [tasks EXCEPT ![t].pc = "update_book_isbn"]
    /\ last' = NoRequest
    /\ UNCHANGED <<next_id, lock, nreq, issued, deleted, committed>>

\* The record written back is the patch applied to a copy of the record
\* taken when the body was decoded, before the lock was asked for.
update_book_stale(t) ==
    /\ tasks[t].pc = "update_book_isbn"
    /\ LET id == tasks[t].id[1]
           copy == IF id \in DOMAIN tasks[t].start
                   THEN tasks[t].start[id].rec ELSE books[id]
           book == set_isbn(set_author(set_title(copy, tasks[t].req[1]),
                                       tasks[t].req[1]), tasks[t].req[1])
           resp == json_response(OK, to_json(book))
       IN  /\ books' = [books EXCEPT ![id] = book]
           /\ last' = Completed(t, resp, Some(book), EmptyMap)
           /\ committed' = note_write(committed, id, book, resp.body)
    /\ lock' = unlock(lock, t)
    /\ tasks' = [tasks EXCEPT ![t] = IdleTask]
    /\ UNCHANGED <<next_id, nreq, issued, deleted>>

\* update_book, lines 163-167: the last write, the answer, the guard
\* dropped.
update_book_isbn(t) ==
    /\ tasks[t].pc = "update_book_isbn"
    /\ LET id == tasks[t].id[1]
           book == set_isbn(books[id], tasks[t].req[1])
           resp == json_response(OK, to_json(book))
       IN  /\ books' = [books EXCEPT ![id] = book]
           /\ last' = Completed(t, resp, Some(book), EmptyMap)
           /\ committed' = note_write(committed, id, book, resp.body)
    /\ lock' = unlock(lock, t)
    /\ tasks' = [tasks EXCEPT ![t] = IdleTask]
    /\ UNCHANGED <<next_id, nreq, issued, deleted>>

\* delete_book
delete_book(t) ==
    /\ tasks[t].pc = "delete_book_lock"
    /\ HoldsLock(t)
    /\ LET id == tasks[t].id[1]
       IN  IF id \in DOMAIN books
           THEN /\ books' = remove(books, id)
                /\ last' = Completed(t, no_content, None, EmptyMap)
                /\ deleted' = deleted \cup {id}
                /\ committed' = note_delete(committed, id)
           ELSE /\ last' = Completed(t, not_found, None, EmptyMap)
                /\ UNCHANGED <<books, deleted, committed>>
    /\ lock' = unlock(lock, t)
    /\ tasks' = [tasks EXCEPT ![t] = IdleTask]
    /\ UNCHANGED <<next_id, nreq, issued>>

\* One step of one handler, with the requests and the bodies of a run.
Step(requests, bodies) ==
    \/ \E t \in Tasks, r \in requests : handle_request(t, r[1], r[2])
    \/ \E t \in Tasks, b \in bodies : create_book_decode(t, b)
    \/ \E t \in Tasks : create_book_alloc(t)
    \/ \E t \in Tasks : create_book_insert(t)
    \/ \E t \in Tasks : get_all_books(t)
    \/ \E t \in Tasks : get_book(t)
    \/ \E t \in Tasks, b \in bodies : update_book_decode(t, b)
    \/ \E t \in Tasks : update_book_title(t)
    \/ \E t \in Tasks : update_book_author(t)
    \/ \E t \in Tasks : update_book_isbn(t)
    \/ \E t \in Tasks : delete_book(t)

Next == Step(Requests, Bodies)

Spec == Init /\ [][Next]_vars

RoutingNext == Step(RoutingRequests, RoutingBodies)

\* The same handlers, run on the paths and methods the routing tells apart.
RoutingSpec == Init /\ [][RoutingNext]_vars

\* The steps of the handler in slot t past the arrival of its request.
Run(t) ==
    \/ \E b \in Bodies : create_book_decode(t, b)
    \/ create_book_alloc(t)
    \/ create_book_insert(t)
    \/ get_all_books(t)
    \/ get_book(t)
    \/ \E b \in Bodies : update_book_decode(t, b)
    \/ update_book_title(t)
    \/ update_book_author(t)
    \/ update_book_isbn(t)
    \/ delete_book(t)

\* The runtime polls every future that can go on: a handler whose body has
\* come (or failed) and a handler that holds the guard are not left waiting
\* for ever.  Nothing is assumed of the arrival of new requests.
FairSpec == Spec /\ \A t \in Tasks : WF_vars(Run(t))

\* ------------------------------------------------------------- properties
\* The JSON of a Book, written out from section 6 of the specification:
\* {"id": <uint>, "title": <string>, "author": <string>, "isbn": <string|null>}.
BookJson(id, title, author, isbn) ==
    [ id |-> id, title |-> <<"str", title>>, author |-> <<"str", author>>,
      isbn |-> IF isbn = <<>> THEN <<"null">> ELSE <<"str", isbn[1]>> ]

JsonOf(book) == BookJson(book.id, book.title, book.author, book.isbn)

LastIs(method, route) ==
    /\ last.method = method
    /\ Route(last.method, last.path) = route

\* The request just completed is a GET /books/{id} whose id parsed.
LastGetBook == LastIs("GET", "get_book") /\ last.id # None

\* C1: every successful create is answered with an id strictly greater than
\* the id of every create answered before it, deleted or not; no id is
\* issued twice.
C1_IdsStrictlyIncrease ==
    /\ \A i, j \in 1..Len(issued) : i < j => issued[i] < issued[j]
    /\ last.resp.status = CREATED =>
          /\ last.resp.body.id = issued[Len(issued)]
          /\ \A i \in 1..(Len(issued) - 1) : issued[i] < last.resp.body.id

\* A create is answered after an earlier create's record was deleted.
C1_Witness ==
    /\ last.resp.status = CREATED
    /\ Len(issued) >= 2
    /\ issued[1] \in deleted

\* C2: every record is stored under its own id, and next_id is greater than
\* every id ever issued: the keys of the map, the deleted ids, the ids
\* answered and the id a create in progress has taken.
C2_StoreInvariant ==
    /\ \A k \in DOMAIN books : books[k].id = k
    /\ \A k \in DOMAIN books \cup deleted : k < next_id
    /\ \A i \in 1..Len(issued) : issued[i] < next_id
    /\ \A t \in Tasks :
          tasks[t].pc = "create_book_insert" => tasks[t].id[1] < next_id

\* A record was deleted, and a create has taken its id and not yet inserted
\* its record.
C2_Witness ==
    /\ deleted # {}
    /\ \E t \in Tasks : tasks[t].pc = "create_book_insert"

\* The body of a PUT is read and decodes as a patch.
PatchDecodes(b) ==
    /\ b.kind = "object"
    /\ \A f \in {b.title, b.author, b.isbn} : f[1] \in {"str", "null", "absent"}

Patched(old, new) == IF new = <<>> THEN old ELSE new[1]

\* C4: an update of an existing id sets the fields the patch holds, keeps
\* the others, and is answered with the full record; a patch that holds no
\* field leaves the record as it was; a GET that reads the record next is
\* answered with the same record.
C4_PartialUpdate ==
    /\ (last.method = "PUT" /\ last.resp.status = OK) =>
          LET pre == last.pre[1]
              patch == last.req[1]
              post == last.post[1]
          IN  /\ post.id = pre.id /\ Some(post.id) = last.id
              /\ post.title = Patched(pre.title, patch.title)
              /\ post.author = Patched(pre.author, patch.author)
              /\ post.isbn = IF patch.isbn = None THEN pre.isbn ELSE patch.isbn
              /\ last.resp.body = JsonOf(post)
              /\ (patch.title = None /\ patch.author = None /\ patch.isbn = None)
                    => post = pre
    /\ (LastGetBook /\ last.resp.status = OK) =>
          /\ last.id[1] \in DOMAIN last.snap
          /\ last.resp.body = last.snap[last.id[1]].out
    /\ \A k \in DOMAIN committed :
          (\A t \in Tasks : tasks[t].pc \notin {"update_book_author", "update_book_isbn"})
              => (k \in DOMAIN books /\ books[k] = committed[k].rec)

\* An update that holds a title and no author changed the title.
C4_Witness ==
    /\ last.method = "PUT"
    /\ last.resp.status = OK
    /\ last.req[1].title # None
    /\ last.req[1].author = None
    /\ last.pre[1].title # last.post[1].title

\* C5: when no delete has succeeded, GET /books is answered with exactly as
\* many records as creates have succeeded, with pairwise distinct ids; with
\* no create, with the empty array.
C5_GetAllCount ==
    (LastIs("GET", "get_all_books") /\ ~last.seenDeleted) =>
        /\ last.resp.status = OK
        /\ Cardinality(last.resp.body) = last.seenIssued
        /\ \A a, b \in last.resp.body : a.id = b.id => a = b
        /\ last.seenIssued = 0 => last.resp.body = {}

\* GET /books after two creates.
C5_Witness ==
    /\ LastIs("GET", "get_all_books")
    /\ ~last.seenDeleted
    /\ last.seenIssued = 2

\* C6: every record a GET /books/{id} or a GET /books is answered with is
\* a record as a completed create or update left it, never one an update
\* has half written.
C6_NoHalfAppliedRead ==
    /\ (LastGetBook /\ last.resp.status = OK) =>
          /\ last.id[1] \in DOMAIN last.snap
          /\ last.resp.body = JsonOf(last.snap[last.id[1]].rec)
    /\ LastIs("GET", "get_all_books") =>
          last.resp.body = {JsonOf(last.snap[k].rec) : k \in DOMAIN last.snap}

\* A GET that came while an update had written the title and not yet the
\* author is answered with the record.
C6_Witness ==
    /\ LastGetBook
    /\ last.raced
    /\ last.resp.status = OK

\* The segment is an id as the specification writes it: digits only, at
\* least one, of a value a u64 holds.
WellFormedId(seg) ==
    /\ seg # <<>>
    /\ \A i \in 1..Len(seg) : seg[i] \in Digits
    /\ fits_u64(seg)

\* What follows the one leading /books/.
Segment(path) == SubSeq(path, Len(BOOKS_SLASH) + 1, Len(path))

\* C7: a GET, PUT or DELETE on a path under /books/ whose remainder is not
\* made of digits alone (empty, signed, with other characters) is answered
\* 400, and is never taken for an id.
C7_BadIdIs400 ==
    /\ ( /\ last.method \in {"GET", "PUT", "DELETE"}
         /\ starts_with(last.path, BOOKS_SLASH)
         /\ ~WellFormedId(Segment(last.path)) )
          => last.resp.status = BAD_REQUEST
    /\ \A t \in Tasks :
          tasks[t].pc # "idle" /\ starts_with(tasks[t].path, BOOKS_SLASH)
              => WellFormedId(Segment(tasks[t].path))

\* C8: a create never stores a record with an empty title or an empty
\* author.
C8_NonEmptyAtCreation ==
    (last.method = "POST" /\ last.resp.status = CREATED) =>
        /\ last.post[1].title # ""
        /\ last.post[1].author # ""

\* The body of a POST is read and decodes as a creation payload.
CreateDecodes(b) ==
    /\ b.kind = "object"
    /\ b.title[1] = "str"
    /\ b.author[1] = "str"
    /\ b.isbn[1] \in {"str", "null", "absent"}

C9_Answer ==
    LastIs("POST", "create_book") =>
        /\ last.resp.status = CREATED <=> CreateDecodes(last.body)
        /\ last.resp.status = BAD_REQUEST <=>
              (last.body.kind # "broken" /\ ~CreateDecodes(last.body))
        /\ last.resp.status = CREATED =>
              /\ last.resp.body =
                    [ id |-> last.id[1], title |-> last.body.title,
                      author |-> last.body.author,
                      isbn |-> IF last.body.isbn = JAbsent THEN JNull
                               ELSE last.body.isbn ]
              /\ last.post[1].id = last.id[1]
              /\ JsonOf(last.post[1]) = last.resp.body

\* A POST /books is answered 400 in this step.
C9_Refused ==
    /\ last'.method = "POST"
    /\ Route(last'.method, last'.path) = "create_book"
    /\ last'.resp.status # CREATED

\* C9: POST /books is answered 201 with the inserted record exactly when
\* the body decodes with title and author; a body that does not decode is
\* answered 400; a create that is not answered 201 inserts nothing and
\* leaves next_id as it was.
C9_CreateOrRefuse ==
    /\ []C9_Answer
    /\ [][C9_Refused => UNCHANGED <<books, next_id>>]_vars

\* A POST whose body lacks the author is answered 400 after a create.
C9_Witness ==
    /\ LastIs("POST", "create_book")
    /\ last.resp.status = BAD_REQUEST
    /\ last.body.kind = "object"
    /\ next_id > 1

\* C10 as stated: GET /books/{id} is answered 200 exactly when the id is a
\* key when the store is read, with the record written by the last create
\* or update of that id that completed before the GET started.
C10_AsOfStart ==
    (LastGetBook /\ last.resp.status = OK) =>
        /\ last.id[1] \in DOMAIN last.start
        /\ last.resp.body = JsonOf(last.start[last.id[1]].rec)

C10_Answer ==
    LastGetBook =>
        /\ last.resp.status \in {OK, NOT_FOUND}
        /\ last.resp.status = OK <=> last.id[1] \in DOMAIN last.snap
        /\ last.resp.status = OK =>
              last.resp.body = JsonOf(last.snap[last.id[1]].rec)
        /\ last.resp.status = NOT_FOUND => last.resp.body = "Not found"

\* A GET /books/{id} is answered in this step.
C10_Read ==
    /\ last'.method = "GET"
    /\ Route(last'.method, last'.path) = "get_book"
    /\ last'.id # None

\* C10 as amended: GET /books/{id} is answered 200 exactly when the id is a
\* key when the store is read, and 404 otherwise, with the record written
\* by the last create or update of that id that completed before the GET
\* read the store; the GET changes neither the map nor next_id.
C10_GetReadsCommitted ==
    /\ []C10_Answer
    /\ [][C10_Read => UNCHANGED <<books, next_id>>]_vars

\* A GET that came before a create of its id completed is answered 200.
C10_Witness ==
    /\ LastGetBook
    /\ last.resp.status = OK
    /\ last.id[1] \notin DOMAIN last.start

C11_Answer ==
    (last.method = "PUT" /\ last.resp.status = OK) =>
        LET pre == last.pre[1]
            post == last.post[1]
        IN  /\ last.body.isbn \in {JAbsent, JNull} => post.isbn = pre.isbn
            /\ last.body.isbn[1] = "str" => post.isbn = <<last.body.isbn[2]>>
            /\ pre.isbn # <<>> => post.isbn # <<>>
            /\ last.resp.body.isbn = <<"null">> <=> post.isbn = <<>>

\* No step takes the isbn of a record that stays in the map away.
C11_Keeps ==
    \A k \in DOMAIN books \cap DOMAIN books' :
        books[k].isbn # <<>> => books'[k].isbn # <<>>

\* C11: once a record's isbn is set, no PUT makes it absent again: a patch
\* with the isbn left out or null leaves the stored isbn as it was, and a
\* patch with a string isbn stores that string.
C11_IsbnNeverCleared ==
    /\ []C11_Answer
    /\ [][C11_Keeps]_vars

\* A PUT with "isbn": null on a record that has an isbn is answered 200.
C11_Witness ==
    /\ last.method = "PUT"
    /\ last.resp.status = OK
    /\ last.body.isbn = JNull
    /\ last.pre[1].isbn # <<>>

\* The places a handler awaits its body at.
BodyPcs == {"create_book_body", "update_book_body"}

\* Nothing a request left behind stands in the way of another: the tasks in
\* the queue of the lock are the handlers in flight that are past their
\* body, each once, so the one at the head can go on.
C12_NobodyBlocked ==
    /\ \A i \in 1..Len(lock) : tasks[lock[i]].pc \notin BodyPcs \cup {"idle"}
    /\ \A i, j \in 1..Len(lock) : lock[i] = lock[j] => i = j
    /\ \A t \in Tasks :
          tasks[t].pc \notin BodyPcs \cup {"idle"}
              => \E i \in 1..Len(lock) : lock[i] = t

\* A request is answered 400 or 404 in this step.
C12_Refused == last'.resp.status \in {BAD_REQUEST, NOT_FOUND}

\* The step leaves the store and every other handler as they were, and the
\* lock with the other handlers in their order.
C12_Frame ==
    /\ UNCHANGED <<books, next_id>>
    /\ \A u \in Tasks : tasks'[u] = tasks[u] \/ tasks'[u].pc = "idle"
    /\ Cardinality({u \in Tasks : tasks'[u] # tasks[u]}) <= 1
    /\ lock' = SelectSeq(lock, LAMBDA x : tasks'[x].pc # "idle")

\* C12: a request answered 400 or 404 leaves the records and next_id as
\* they were, and stands in no other request's way: it leaves the other
\* handlers and their places in the queue of the lock untouched and holds
\* no guard afterwards.
C12_ErrorsLeaveStore ==
    /\ []C12_NobodyBlocked
    /\ [][C12_Refused => C12_Frame]_vars

\* A DELETE of an id that is no key is answered 404 while the map holds a
\* record and another handler waits for the lock.
C12_Witness ==
    /\ last.method = "DELETE"
    /\ last.resp.status = NOT_FOUND
    /\ DOMAIN books # {}
    /\ lock # <<>>

\* The combinations of section 6 of the specification: POST /books,
\* GET /books, and GET, PUT and DELETE on a path under /books/.
Served(method, path) ==
    \/ method \in {"POST", "GET"} /\ path = <<"/", "b", "o", "o", "k", "s">>
    \/ /\ method \in {"GET", "PUT", "DELETE"}
       /\ Len(path) >= 7
       /\ SubSeq(path, 1, 7) = <<"/", "b", "o", "o", "k", "s", "/">>

C13_Answer ==
    (last.method # "" /\ ~Served(last.method, last.path)) =>
        /\ last.resp = [status |-> NOT_FOUND, body |-> "Not found"]
        /\ last.id = <<>>
        /\ last.body = NoBody

\* A request of another combination comes in this step.
C13_Other == last'.method # "" /\ ~Served(last'.method, last'.path)

\* C13: every other combination of method and path is answered 404 at
\* once: no id is parsed, no body is read, and the store, the lock and the
\* handlers in flight stay as they were.
C13_OtherIs404 ==
    /\ []C13_Answer
    /\ [][C13_Other => UNCHANGED <<books, next_id, lock, tasks>>]_vars

\* PATCH /books/1 is answered 404 while the map holds record 1.
C13_Witness ==
    /\ last.method = "PATCH"
    /\ last.resp.status = NOT_FOUND
    /\ 1 \in DOMAIN books

\* The number of handlers in flight.
InFlight(ts) == Cardinality({t \in Tasks : ts[t].pc # "idle"})

\* Every request that ends has an HTTP response.
C14_Answered ==
    last.method # "" =>
        last.resp.status \in {OK, CREATED, NO_CONTENT, BAD_REQUEST, NOT_FOUND, 500}

\* Every handler in flight ends.
C14_Ends == \A t \in Tasks : (tasks[t].pc # "idle") ~> (tasks[t].pc = "idle")

\* A request ends in the step that records its one answer: a step records
\* one answer when it takes a request out of flight or answers it as it
\* arrives, and none otherwise.
C14_Once ==
    (last'.method # "") <=>
        \/ InFlight(tasks') = InFlight(tasks) - 1 /\ nreq' = nreq
        \/ InFlight(tasks') = InFlight(tasks) /\ nreq' = nreq + 1

\* C14: with every handler that can go on scheduled, every request ends,
\* with exactly one HTTP response of status 200, 201, 204, 400, 404 or 500.
C14_OneResponse ==
    /\ []C14_Answered
    /\ [][C14_Once]_vars
    /\ C14_Ends

\* What holds of C14: every request ends, none waits for ever for the lock,
\* each ends once, and each whose body could be read ends with a response.
C14_ReadableAnswered ==
    /\ [](last.body.kind # "broken" => C14_Answered)
    /\ [](last.body.kind = "broken" => last.resp = hyper_error)
    /\ [][C14_Once]_vars
    /\ C14_Ends

\* No deleted id is a key again, and a PUT whose body decoded and whose id
\* has been deleted is answered 404.
C15_NoResurrection ==
    /\ \A k \in deleted : k \notin DOMAIN books
    /\ (last.method = "PUT" /\ last.req # <<>>) =>
          /\ last.id[1] \in deleted =>
                last.resp = [status |-> NOT_FOUND, body |-> "Not found"]
          /\ last.resp.status = OK <=> last.id[1] \in DOMAIN books
          /\ last.resp.status \in {OK, NOT_FOUND}

\* What a step may do to the keys: a create answered 201 adds its one new
\* key, a delete answered 204 removes its key and leaves next_id, and both
\* leave the other records; no other step changes the keys, and no step
\* changes the id of a record.
C15_KeysStep ==
    LET D == DOMAIN books
        E == DOMAIN books'
    IN  /\ E # D =>
              \/ /\ last'.method = "POST" /\ last'.resp.status = CREATED
                 /\ last'.id[1] \notin D
                 /\ E = D \cup {last'.id[1]}
              \/ /\ last'.method = "DELETE" /\ last'.resp.status = NO_CONTENT
                 /\ last'.id[1] \in D
                 /\ E = D \ {last'.id[1]}
        /\ last'.resp.status = CREATED =>
              /\ E = D \cup {last'.id[1]} /\ E # D
              /\ \A j \in D : books'[j] = books[j]
        /\ last'.resp.status = NO_CONTENT =>
              /\ E = D \ {last'.id[1]} /\ E # D
              /\ \A j \in E : books'[j] = books[j]
              /\ next_id' = next_id
        /\ \A j \in D \cap E : books'[j].id = books[j].id

\* C15: the keys of the map change only by a create answered 201, which
\* adds one new key, and by a delete answered 204, which removes the key
\* asked for and leaves the other records and next_id; an update adds no
\* key, removes none and changes no id, so a PUT decoded before a DELETE of
\* its id took effect is answered 404 and the record stays gone.
C15_KeysByCreateAndDelete ==
    /\ []C15_NoResurrection
    /\ [][C15_KeysStep]_vars

\* A PUT whose body was decoded while its record was in the map is answered
\* 404: a DELETE of the id was served in between.
C15_Witness ==
    /\ last.method = "PUT"
    /\ last.req # <<>>
    /\ last.id[1] \in DOMAIN last.start
    /\ last.id[1] \in deleted
    /\ last.resp.status = NOT_FOUND

\* C16: PUT /books/{id} checks in this order.  An id the parse rejects is
\* answered 400 "Invalid book ID" and the body is not read.  With an id that
\* parses, a body that is read and does not decode is answered 400
\* "Invalid request body", whether the id is a key or not.  With an id that
\* parses and a body that decodes, the answer is 200 with the updated
\* record when the id is a key and 404 when it is not.
C16_PutOrder ==
    (LastIs("PUT", "update_book") /\ last.body.kind # "broken") =>
        IF ~is_ok(handle_book_id(last.path))
        THEN /\ last.resp = [status |-> BAD_REQUEST, body |-> "Invalid book ID"]
             /\ last.body = NoBody
        ELSE /\ last.id = <<handle_book_id(last.path)[2]>>
             /\ IF ~PatchDecodes(last.body)
                THEN last.resp = [status |-> BAD_REQUEST,
                                  body |-> "Invalid request body"]
                ELSE IF last.id[1] \in DOMAIN books
                THEN /\ last.resp = [status |-> OK, body |-> JsonOf(last.post[1])]
                     /\ books[last.id[1]] = last.post[1]
                ELSE last.resp = [status |-> NOT_FOUND, body |-> "Not found"]

\* A PUT of an id that is no key, with a body that does not decode, is
\* answered 400.
C16_Witness ==
    /\ LastIs("PUT", "update_book")
    /\ last.id # <<>>
    /\ last.id[1] \notin DOMAIN books
    /\ last.body.kind = "object"
    /\ last.resp.status = BAD_REQUEST

\* The body of a POST or a PUT is read and decodes.
Decodes(method, b) == IF method = "POST" THEN CreateDecodes(b) ELSE PatchDecodes(b)

InQueue(q, t) == \E i \in 1..Len(q) : q[i] = t

\* No handler that awaits its body is in the queue of the lock, and every
\* POST or PUT handler in that queue has its body, decoded.
C17_BodyThenLock ==
    \A t \in Tasks :
        /\ tasks[t].pc \in BodyPcs =>
              ~InQueue(lock, t) /\ tasks[t].req = <<>>
        /\ (InQueue(lock, t) /\ tasks[t].method \in {"POST", "PUT"}) =>
              /\ Decodes(tasks[t].method, tasks[t].body)
              /\ tasks[t].req # <<>>

\* A POST or PUT handler asks for the lock in the step its body decodes, and
\* a POST or PUT that ends without a body that decodes ends without having
\* been in the queue: the step leaves the lock and the store alone.
C17_Step ==
    /\ \A t \in Tasks :
          (~InQueue(lock, t) /\ InQueue(lock', t)
             /\ tasks'[t].method \in {"POST", "PUT"}) =>
              /\ tasks[t].pc \in BodyPcs
              /\ Decodes(tasks'[t].method, tasks'[t].body)
    /\ (last'.method \in {"POST", "PUT"}
          /\ ~Decodes(last'.method, last'.body)) =>
              UNCHANGED <<lock, books, next_id>>

\* C17: a POST or a PUT reads and decodes its body before it asks for the
\* lock: no handler holds or awaits the lock while it awaits its body, and
\* a request whose body does not decode never asks for the lock.
C17_DecodeBeforeLock ==
    /\ []C17_BodyThenLock
    /\ [][C17_Step]_vars

\* A POST whose body does not decode is answered 400 while another handler
\* is in the queue of the lock.
C17_Witness ==
    /\ last.method = "POST"
    /\ last.resp.status = BAD_REQUEST
    /\ last.body.kind # "none"
    /\ lock # <<>>

\* The places between two accesses to the store of one operation.
CriticalPcs == {"create_book_insert", "update_book_author", "update_book_isbn"}

\* The answer comes from the store: a 200, 201 or 204, or the 404 of a
\* lookup.
StoreAnswer(l) ==
    \/ l.resp.status \in {OK, CREATED, NO_CONTENT}
    \/ /\ l.resp.status = NOT_FOUND
       /\ l.id # <<>>
       /\ l.method \in {"GET", "DELETE"} \/ l.req # <<>>

\* At most one handler is inside a store operation, it is the one at the
\* head of the lock's queue, and no handler that has ended is in the queue.
C18_OneInside ==
    /\ Cardinality({t \in Tasks : tasks[t].pc \in CriticalPcs}) <= 1
    /\ \A t \in Tasks :
          /\ tasks[t].pc \in CriticalPcs => (lock # <<>> /\ lock[1] = t)
          /\ tasks[t].pc = "idle" => ~InQueue(lock, t)

\* Every step that writes the map or next_id, and every step that reads
\* them for an answer, is a step of the handler that holds the guard; the
\* step that answers takes that handler out of the queue.
C18_Step ==
    /\ (books' # books \/ next_id' # next_id) =>
          /\ lock # <<>>
          /\ tasks'[lock[1]] # tasks[lock[1]]
          /\ \A u \in Tasks \ {lock[1]} : tasks'[u] = tasks[u]
    /\ StoreAnswer(last') =>
          /\ lock # <<>>
          /\ tasks[lock[1]].method = last'.method
          /\ tasks[lock[1]].path = last'.path
          /\ tasks'[lock[1]].pc = "idle"
          /\ ~InQueue(lock', lock[1])

\* C18: at most one handler is inside a store operation at any time; every
\* write and every read of the map and of next_id, those of GET /books and
\* GET /books/{id} included, is made by the handler that holds the one
\* lock, and the lock is released when the operation is done.
C18_MutualExclusion ==
    /\ []C18_OneInside
    /\ [][C18_Step]_vars

\* An update is between two of its writes while a GET of the same id waits
\* for the lock.
C18_Witness ==
    \E t, u \in Tasks :
        /\ tasks[t].pc = "update_book_author"
        /\ tasks[u].pc = "get_book_lock"
        /\ tasks[u].id = tasks[t].id
        /\ lock = <<t, u>>

\* A PUT is answered 200 in this step.
C19_Updated == last'.method = "PUT" /\ last'.resp.status = OK

\* The record the update leaves is the record the last completed create or
\* update of the id had left, with the fields of the patch replaced: what
\* the writers before it wrote to the other fields is kept.
C19_OnTop ==
    LET id == last'.id[1]
        patch == last'.req[1]
    IN  /\ id \in DOMAIN committed
        /\ last'.pre = <<committed[id].rec>>
        /\ books'[id] =
              [ id |-> id,
                title |-> Patched(committed[id].rec.title, patch.title),
                author |-> Patched(committed[id].rec.author, patch.author),
                isbn |-> IF patch.isbn = <<>> THEN committed[id].rec.isbn
                         ELSE patch.isbn ]
        /\ committed'[id].rec = books'[id]

\* C19: no update is lost: each PUT answered 200 leaves the record its
\* predecessor left with its own fields replaced, so after two concurrent
\* PUTs of one id that patch disjoint fields the record carries the values
\* of both, whichever is served first.
C19_NoLostUpdate == [][C19_Updated => C19_OnTop]_vars

\* A PUT that patches the author alone is answered 200 after another PUT,
\* served between its decoding and its lookup, changed the title: the
\* record carries the new title and the new author.
C19_Witness ==
    /\ last.method = "PUT"
    /\ last.resp.status = OK
    /\ last.req[1].title = <<>>
    /\ last.req[1].author # <<>>
    /\ last.id[1] \in DOMAIN last.start
    /\ last.start[last.id[1]].rec.title # last.post[1].title
    /\ last.start[last.id[1]].rec.author # last.post[1].author
    /\ last.post[1].author = last.req[1].author[1]
    /\ books[last.id[1]] = last.post[1]

\* C20: from a fresh store the k-th create answered 201 is answered with id
\* k, whatever else is served in between, and next_id is one more than the
\* number of creates that have succeeded, counting the create that holds
\* the guard and has taken its id.
C20_KthCreateIsK ==
    /\ \A k \in 1..Len(issued) : issued[k] = k
    /\ last.resp.status = CREATED =>
          /\ last.resp.body.id = Len(issued)
          /\ last.post[1].id = Len(issued)
    /\ next_id = 1 + Len(issued)
                   + Cardinality({t \in Tasks : tasks[t].pc = "create_book_insert"})
    /\ Len(issued) = 0 /\ (\A t \in Tasks : tasks[t].pc # "create_book_insert")
          => next_id = 1

\* The second create is answered with id 2 after a request of another kind
\* was served, the three being all the requests there were.
C20_Witness ==
    /\ last.resp.status = CREATED
    /\ last.resp.body.id = 2
    /\ nreq = 3
    /\ \A t \in Tasks : tasks[t].pc = "idle"

====
